---- MODULE Spec2Model ----
(***************************************************************************)
(* Column codec of chconn: the scalar columns Uint64 (column/uint64.go)    *)
(* and DateTime, their decode cursor, their append-only encoder, the       *)
(* parallel nullability bitmap and the low-cardinality dictionary.         *)
(*                                                                         *)
(* Integers wider than 31 bits are kept as limbs: a 64-bit word is a       *)
(* 4-tuple of 16-bit limbs, least significant first, so that shifts,       *)
(* truncations to byte and the little-endian reads are computed at their   *)
(* width.  A Go pointer *T is a sequence of length 0 (nil) or 1.           *)
(***************************************************************************)
EXTENDS Integers, Sequences, FiniteSets, TLC

VARIABLES
    kind,        \* which column type the instance is: "Uint64" or "DateTime"
    nullable,    \* column.nullable
    phase,       \* "enc": the instance builds a block; "dec": it is bound to a decode block
    b,           \* column.b, the read buffer
    totalByte,   \* column.totalByte
    nb,          \* column.colNullable.b, the bitmap of the decode block
    i,           \* column.i, the cursor
    val,         \* Uint64.val / DateTime.val
    writerData,  \* column.writerData
    numRow,      \* column.numRow
    nw,          \* column.colNullable.writerData, the bitmap being built
    dict,        \* Uint64.dict / DateTime.dict
    keys,        \* Uint64.keys / DateTime.keys
    op,          \* the last operation called
    ret,         \* what the last Next() returned: "none", "true", "false"
    out,         \* the caller's slice after the last bulk read
    outOp,       \* the bulk read that produced out
    pre,         \* the length the caller's slice had before ReadAll/ReadAllP
    seen,        \* Value() after each successful Next() since the block was bound
    seenP,       \* ValueP() after each successful Next() (nullable column)
    seqOnly,     \* the cursor was moved by Next() alone
    hist,        \* the encode calls since the last Reset, oldest first
    wasReset,    \* Reset has been called on the instance
    offW,        \* ArrayNullable: the offset column being built (offsetColumn's values)
    innerW,      \* ArrayNullable: the elements appended to the inner nullable column
    aHist,       \* ArrayNullable: the append calls since the last Reset, a row per entry
    rNum,        \* ArrayNullable: offsetColumn.numRow of the decode block
    rOff,        \* ArrayNullable: the offsets of the decode block, offsetColumn.Row
    rData,       \* ArrayNullable: what dataColumn.DataP() returns for the decode block
    columnData,  \* ArrayNullable.columnData
    computed,    \* ArrayNullable: how often columnData was computed since ReadRaw or Reset
    aOp,         \* ArrayNullable: the last operation called
    aOut,        \* ArrayNullable: the result of the last read access or ReadRaw
    aArg,        \* ArrayNullable: the argument of the last read access
    dest,        \* the destination handed to Scan / ScanValue
    destBefore,  \* the destination as it was before the call
    scanErr      \* the error Scan / ScanValue returned: <<>> is nil

vars == <<kind, nullable, phase, b, totalByte, nb, i, val, writerData, numRow,
          nw, dict, keys, op, ret, out, outOp, pre, seen, seenP, seqOnly, hist,
          wasReset, offW, innerW, aHist, rNum, rOff, rData, columnData, computed,
          aOp, aOut, aArg, dest, destBefore, scanErr>>

decVars == <<b, totalByte, nb, i, val, ret, out, outOp, pre, seen, seenP, seqOnly>>
encVars == <<writerData, numRow, nw, dict, keys, hist, wasReset>>
cfgVars == <<kind, nullable>>
arrEncVars == <<offW, innerW, aHist>>
arrDecVars == <<rNum, rOff, rData, columnData, computed, aOut, aArg>>
arrScanVars == <<dest, destBefore, scanErr>>
arrVars == <<arrEncVars, arrDecVars, arrScanVars, aOp>>
scalarVars == <<phase, cfgVars, decVars, encVars, op>>

(***************************************************************************)
(* Bounds of the model.                                                    *)
(***************************************************************************)
MaxRows == 2
MaxOps == 3
MaxDictOps == 5
MaxRT == 3
MaxArrRows == 3
MaxComputes == 3
MaxScanRows == 2
MaxCacheRows == 2

(***************************************************************************)
(* Element widths.                                                         *)
(***************************************************************************)
Uint64Size == 8
DatetimeSize == 4

size == IF kind = "Uint64" THEN Uint64Size ELSE DatetimeSize

Kinds == {"Uint64", "DateTime"}

(***************************************************************************)
(* Words and times.                                                        *)
(***************************************************************************)
Word(l0, l1, l2, l3) == <<l0, l1, l2, l3>>

U0 == Word(0, 0, 0, 0)
U1 == Word(1, 0, 0, 0)
U42 == Word(42, 0, 0, 0)
UMax == Word(65535, 65535, 65535, 65535)

\* time.Time: the seconds since the epoch as an int64 (two's complement), the
\* nanoseconds within the second and the Location the value carries.  Two
\* values are equal under == (and as map keys) only if all three agree: the
\* same instant in two Locations is two values.  Time(sec, nsec) is the value
\* time.Unix(sec, nsec) makes, in the Local location.
Time(sec, nsec) == [sec |-> sec, nsec |-> nsec, loc |-> "Local"]

\* time.Time.UTC(): the same instant, Location UTC
InUTC(t) == [t EXCEPT !.loc = "UTC"]

\* time.Time.Unix()
Unix(t) == t.sec

\* time.Unix(sec, 0)
TimeUnix(sec) == Time(sec, 0)

\* int64 comparison v <= 0 on a two's-complement word
LeqZero(w) == w[4] >= 32768 \/ w = U0

\* The zero values of the two element types: uint64(0) and time.Time{} (January
\* 1, year 1, whose Unix() is -62135596800).
ZeroVal(k) ==
    IF k = "Uint64" THEN U0 ELSE InUTC(Time(Word(2304, 34926, 65521, 65535), 0))

TNeg == Time(UMax, 0)                        \* 1969-12-31 23:59:59, Unix() = -1
TEpoch == Time(U0, 0)                        \* Unix() = 0
TOne == Time(U1, 500)                        \* Unix() = 1, half a microsecond in
TMid == Time(Word(772, 258, 0, 0), 0)        \* Unix() = 0x01020304
TMidUTC == InUTC(TMid)                       \* the same instant, t.UTC()
TMax32 == Time(Word(65535, 65535, 0, 0), 0)  \* Unix() = 2^32 - 1
TBig == Time(Word(5, 0, 1, 0), 0)            \* Unix() = 2^32 + 5

\* byte(v >> (8*k)), k in 0..7
ByteOf(w, k) ==
    LET l == w[(k \div 2) + 1]
    IN  IF k % 2 = 0 THEN l % 256 ELSE l \div 256

BigEndianUint64(s) ==
    Word(s[8] + 256 * s[7], s[6] + 256 * s[5], s[4] + 256 * s[3], s[2] + 256 * s[1])

\* binary.LittleEndian.Uint64 of an 8-byte span
LittleEndianUint64(s) ==
    Word(s[1] + 256 * s[2], s[3] + 256 * s[4], s[5] + 256 * s[6], s[7] + 256 * s[8])

\* int64(binary.LittleEndian.Uint32(s)) of a 4-byte span
LittleEndianUint32(s) ==
    Word(s[1] + 256 * s[2], s[3] + 256 * s[4], 0, 0)

\* What Next, ReadAll, Fill and their nullable forms make of one element span.
DecodeSpan(k, s) ==
    IF k = "Uint64" THEN LittleEndianUint64(s) ELSE TimeUnix(LittleEndianUint32(s))

\* c.b[from : to] (Go half-open byte offsets)
Slice(s, from, to) == SubSeq(s, from + 1, to)

\* emptyByte[:n]
EmptyBytes(n) == [j \in 1..n |-> 0]

(***************************************************************************)
(* Decode operations.                                                      *)
(***************************************************************************)
NextStaysAtCursor ==
    /\ phase = "dec"
    /\ IF i >= totalByte
       THEN /\ ret' = "false"
            /\ UNCHANGED <<i, val, seen, seenP>>
       ELSE /\ i' = i
            /\ val' = DecodeSpan(kind, Slice(b, i, i + size))
            /\ ret' = "true"
            /\ UNCHANGED <<seen, seenP>>
    /\ op' = "Next"
    /\ UNCHANGED <<b, totalByte, nb, out, outOp, pre, seqOnly>>
    /\ UNCHANGED <<phase, cfgVars, arrVars, encVars>>

\* Uint64.ValueP / DateTime.ValueP on the state (cur, v): the bitmap is indexed
\* by the row just consumed.
ValuePAt(cur, v) ==
    IF nb[((cur - size) \div size) + 1] = 1 THEN <<>> ELSE <<v>>

ValueP == ValuePAt(i, val)

Value == val

Next ==
    /\ phase = "dec"
    /\ IF i >= totalByte
       THEN /\ ret' = "false"
            /\ UNCHANGED <<i, val, seen, seenP>>
       ELSE /\ i' = i + size
            /\ val' = DecodeSpan(kind, Slice(b, i' - size, i'))
            /\ ret' = "true"
            /\ seen' = Append(seen, val')
            /\ seenP' = IF nullable THEN Append(seenP, ValuePAt(i', val')) ELSE seenP
    /\ op' = "Next"
    /\ UNCHANGED <<b, totalByte, nb, out, outOp, pre, seqOnly>>
    /\ UNCHANGED <<phase, cfgVars, arrVars, encVars>>

ReadAllRowsDropsLast ==
    [r \in 1..((totalByte \div size) - 1) |->
        DecodeSpan(kind, Slice(b, (r - 1) * size, (r - 1) * size + size))]

\* The rows ReadAll appends: the loop i = 0; i < totalByte; i += size.
ReadAllRows ==
    [r \in 1..((totalByte + size - 1) \div size) |->
        DecodeSpan(kind, Slice(b, (r - 1) * size, (r - 1) * size + size))]

ReadAll(value) ==
    /\ phase = "dec"
    /\ out' = value \o ReadAllRows
    /\ outOp' = "ReadAll"
    /\ pre' = Len(value)
    /\ op' = "ReadAll"
    /\ UNCHANGED <<b, totalByte, nb, i, val, ret, seen, seenP, seqOnly>>
    /\ UNCHANGED <<phase, cfgVars, arrVars, encVars>>

ReadAllPRows ==
    [r \in 1..((totalByte + size - 1) \div size) |->
        IF nb[(((r - 1) * size) \div size) + 1] # 0
        THEN <<>>
        ELSE <<DecodeSpan(kind, Slice(b, (r - 1) * size, (r - 1) * size + size))>>]

ReadAllP(value) ==
    /\ phase = "dec"
    /\ nullable
    /\ out' = value \o ReadAllPRows
    /\ outOp' = "ReadAllP"
    /\ pre' = Len(value)
    /\ op' = "ReadAllP"
    /\ UNCHANGED <<b, totalByte, nb, i, val, ret, seen, seenP, seqOnly>>
    /\ UNCHANGED <<phase, cfgVars, arrVars, encVars>>

FillRowsRepeatsFirst(n) ==
    [j \in 1..n |-> DecodeSpan(kind, Slice(b, i, i + size))]

\* Fill(value) with len(value) = n: row j of the destination is read at the
\* cursor, which then moves on by one element.
FillRows(n) ==
    [j \in 1..n |-> DecodeSpan(kind, Slice(b, i + (j - 1) * size, i + (j - 1) * size + size))]

FillAdvancesByRows(n) ==
    /\ phase = "dec"
    /\ n * size <= totalByte - i
    /\ out' = FillRows(n)
    /\ i' = i + n
    /\ outOp' = "Fill"
    /\ pre' = 0
    /\ op' = "Fill"
    /\ seqOnly' = (seqOnly /\ n = 0)
    /\ UNCHANGED <<b, totalByte, nb, val, ret, seen, seenP>>
    /\ UNCHANGED <<phase, cfgVars, arrVars, encVars>>

Fill(n) ==
    /\ phase = "dec"
    /\ n * size <= totalByte - i
    /\ out' = FillRows(n)
    /\ i' = i + n * size
    /\ outOp' = "Fill"
    /\ pre' = 0
    /\ op' = "Fill"
    /\ seqOnly' = (seqOnly /\ n = 0)
    /\ UNCHANGED <<b, totalByte, nb, val, ret, seen, seenP>>
    /\ UNCHANGED <<phase, cfgVars, arrVars, encVars>>

FillPRows(n) ==
    [j \in 1..n |->
        IF nb[((i + (j - 1) * size) \div size) + 1] = 1
        THEN <<>>
        ELSE <<DecodeSpan(kind, Slice(b, i + (j - 1) * size, i + (j - 1) * size + size))>>]

FillP(n) ==
    /\ phase = "dec"
    /\ nullable
    /\ n * size <= totalByte - i
    /\ out' = FillPRows(n)
    /\ i' = i + n * size
    /\ outOp' = "FillP"
    /\ pre' = 0
    /\ op' = "FillP"
    /\ seqOnly' = (seqOnly /\ n = 0)
    /\ UNCHANGED <<b, totalByte, nb, val, ret, seen, seenP>>
    /\ UNCHANGED <<phase, cfgVars, arrVars, encVars>>

(***************************************************************************)
(* The decode blocks a reader can bind the column to: num rows of size     *)
(* bytes each and, for a nullable column, num bitmap bytes.                *)
(***************************************************************************)
RowSpans(k) ==
    IF k = "Uint64"
    THEN {<<1, 0, 0, 0, 0, 0, 0, 0>>, <<8, 7, 6, 5, 4, 3, 2, 1>>}
    ELSE {<<0, 0, 0, 0>>, <<4, 3, 2, 255>>}

RECURSIVE Flatten(_)
Flatten(rows) ==
    IF rows = <<>> THEN <<>> ELSE Head(rows) \o Flatten(Tail(rows))

Blocks(k, num) == {Flatten(rows) : rows \in [1..num -> RowSpans(k)]}

Bitmaps(isNullable, num) ==
    IF isNullable THEN [1..num -> {0, 1, 2}] ELSE {<<>>}

\* column.ReadRaw binds the block: the cursor is back at 0.
BindBlock(block, bitmap) ==
    /\ b = block
    /\ totalByte = Len(block)
    /\ nb = bitmap
    /\ i = 0
    /\ ret = "none"
    /\ out = <<>>
    /\ outOp = "none"
    /\ pre = 0
    /\ seen = <<>>
    /\ seenP = <<>>
    /\ seqOnly = TRUE

EmptyDict == [x \in {} |-> 0]

Fresh ==
    /\ writerData = <<>>
    /\ numRow = 0
    /\ nw = <<>>
    /\ dict = EmptyDict
    /\ keys = <<>>
    /\ hist = <<>>
    /\ wasReset = FALSE

\* NewArrayNullable: nothing appended, no block bound, no cache.
ArrFresh ==
    /\ offW = <<>>
    /\ innerW = <<>>
    /\ aHist = <<>>
    /\ rNum = 0
    /\ rOff = <<>>
    /\ rData = <<>>
    /\ columnData = <<>>
    /\ computed = 0
    /\ aOp = "new"
    /\ aOut = <<>>
    /\ aArg = <<>>
    /\ dest = <<>>
    /\ destBefore = <<>>
    /\ scanErr = <<>>

InitDec ==
    /\ kind \in Kinds
    /\ nullable \in BOOLEAN
    /\ phase = "dec"
    /\ val = ZeroVal(kind)
    /\ op = "new"
    /\ Fresh
    /\ ArrFresh
    /\ \E num \in 0..MaxRows :
         \E block \in Blocks(kind, num), bitmap \in Bitmaps(nullable, num) :
            BindBlock(block, bitmap)

Prefixes == {<<>>, <<ZeroVal(kind)>>}
PrefixesP == {<<>>, <<<<>>>>}

NextDec ==
    \/ Next
    \/ \E value \in Prefixes : ReadAll(value)
    \/ \E value \in PrefixesP : ReadAllP(value)
    \/ \E n \in 0..MaxRows : Fill(n)
    \/ \E n \in 0..MaxRows : FillP(n)

SpecDec == InitDec /\ [][NextDec]_vars

(***************************************************************************)
(* Encode operations.                                                      *)
(***************************************************************************)
Call(name, arg) == [op |-> name, arg |-> arg]

\* The bytes DateTime.Append writes without the v.Unix() <= 0 branch.
DateTimeBytesSigned(v) == [j \in 1..4 |-> ByteOf(Unix(v), j - 1)]

\* The bytes Uint64.Append writes: byte(v), byte(v>>8), ..., byte(v>>56).
Uint64Bytes(v) == [j \in 1..8 |-> ByteOf(v, j - 1)]

\* The bytes DateTime.Append writes: zeros for an instant at or before the
\* epoch, else byte(timestamp), ..., byte(timestamp>>24).
DateTimeBytes(v) ==
    IF LeqZero(Unix(v))
    THEN EmptyBytes(DatetimeSize)
    ELSE [j \in 1..4 |-> ByteOf(Unix(v), j - 1)]

AppendBytes(k, v) == IF k = "Uint64" THEN Uint64Bytes(v) ELSE DateTimeBytes(v)

\* The state changes of Append and AppendEmpty, shared by the operations that
\* call them.
DoAppendKeepsNumRow(v) ==
    /\ numRow' = numRow
    /\ writerData' = writerData \o AppendBytes(kind, v)

DoAppend(v) ==
    /\ numRow' = numRow + 1
    /\ writerData' = writerData \o AppendBytes(kind, v)

DoAppendEmpty ==
    /\ numRow' = numRow + 1
    /\ writerData' = writerData \o EmptyBytes(size)

\* colNullable.Append(x)
NullableAppend(x) == nw' = Append(nw, x)

Logged(name, arg) ==
    /\ hist' = Append(hist, Call(name, arg))
    /\ op' = name
    /\ UNCHANGED <<phase, cfgVars, arrVars, decVars, wasReset>>

AppendV(v) ==
    /\ phase = "enc"
    /\ DoAppend(v)
    /\ UNCHANGED <<nw, dict, keys>>
    /\ Logged("Append", <<v>>)

AppendEmpty ==
    /\ phase = "enc"
    /\ DoAppendEmpty
    /\ UNCHANGED <<nw, dict, keys>>
    /\ Logged("AppendEmpty", <<>>)

AppendPDropsNilMark(v) ==
    /\ phase = "enc"
    /\ IF v = <<>>
       THEN DoAppendEmpty /\ nw' = nw
       ELSE NullableAppend(0) /\ DoAppend(v[1])
    /\ UNCHANGED <<dict, keys>>
    /\ Logged("AppendP", v)

AppendPMarksNilZero(v) ==
    /\ phase = "enc"
    /\ IF v = <<>>
       THEN DoAppendEmpty /\ NullableAppend(0)
       ELSE NullableAppend(0) /\ DoAppend(v[1])
    /\ UNCHANGED <<dict, keys>>
    /\ Logged("AppendP", v)

AppendP(v) ==
    /\ phase = "enc"
    /\ IF v = <<>>
       THEN DoAppendEmpty /\ NullableAppend(1)
       ELSE NullableAppend(0) /\ DoAppend(v[1])
    /\ UNCHANGED <<dict, keys>>
    /\ Logged("AppendP", v)

\* c.dict[v] = key
DictPut(d, v, key) == [x \in (DOMAIN d) \cup {v} |-> IF x = v THEN key ELSE d[x]]

\* len(c.dict)
DictLen(d) == Cardinality(DOMAIN d)

\* key, ok := c.dict[v]; if !ok { key = len(c.dict); c.dict[v] = key; c.Append(v) }
DictLookupOrAdd(v) ==
    IF v \in DOMAIN dict
    THEN UNCHANGED <<dict, writerData, numRow>>
    ELSE dict' = DictPut(dict, v, DictLen(dict)) /\ DoAppend(v)

AppendDictNoDedup(v) ==
    /\ phase = "enc"
    /\ dict' = DictPut(dict, v, IF v \in DOMAIN dict THEN dict[v] ELSE DictLen(dict))
    /\ DoAppend(v)
    /\ keys' = Append(keys, IF nullable THEN dict'[v] + 1 ELSE dict'[v])
    /\ UNCHANGED nw
    /\ Logged("AppendDict", <<v>>)

AppendDictNeverShifts(v) ==
    /\ phase = "enc"
    /\ DictLookupOrAdd(v)
    /\ keys' = Append(keys, dict'[v])
    /\ UNCHANGED nw
    /\ Logged("AppendDict", <<v>>)

AppendDict(v) ==
    /\ phase = "enc"
    /\ DictLookupOrAdd(v)
    /\ keys' = Append(keys, IF nullable THEN dict'[v] + 1 ELSE dict'[v])
    /\ UNCHANGED nw
    /\ Logged("AppendDict", <<v>>)

AppendDictNil ==
    /\ phase = "enc"
    /\ keys' = Append(keys, 0)
    /\ UNCHANGED <<writerData, numRow, nw, dict>>
    /\ Logged("AppendDictNil", <<>>)

AppendDictPUnshifted(v) ==
    /\ phase = "enc"
    /\ IF v = <<>>
       THEN keys' = Append(keys, 0) /\ UNCHANGED <<dict, writerData, numRow>>
       ELSE DictLookupOrAdd(v[1]) /\ keys' = Append(keys, dict'[v[1]])
    /\ UNCHANGED nw
    /\ Logged("AppendDictP", v)

AppendDictP(v) ==
    /\ phase = "enc"
    /\ IF v = <<>>
       THEN keys' = Append(keys, 0) /\ UNCHANGED <<dict, writerData, numRow>>
       ELSE DictLookupOrAdd(v[1]) /\ keys' = Append(keys, dict'[v[1]] + 1)
    /\ UNCHANGED nw
    /\ Logged("AppendDictP", v)

ResetKeepsDict ==
    /\ phase = "enc"
    /\ writerData' = <<>>
    /\ numRow' = 0
    /\ nw' = <<>>
    /\ keys' = <<>>
    /\ dict' = dict
    /\ hist' = <<>>
    /\ op' = "Reset"
    /\ wasReset' = TRUE
    /\ UNCHANGED <<phase, cfgVars, arrVars, decVars>>

\* column.Reset: the write buffer, the row count and the bitmap being built.
ColumnReset ==
    /\ writerData' = <<>>
    /\ numRow' = 0
    /\ nw' = <<>>

Reset ==
    /\ phase = "enc"
    /\ ColumnReset
    /\ keys' = <<>>
    /\ dict' = EmptyDict
    /\ hist' = <<>>
    /\ op' = "Reset"
    /\ wasReset' = TRUE
    /\ UNCHANGED <<phase, cfgVars, arrVars, decVars>>

\* The block the column wrote comes back from the server: ReadRaw binds the
\* read buffer to the numRow rows written and, for a nullable column, the
\* bitmap to the numRow marks written.
ReadRawWritten ==
    /\ phase = "enc"
    /\ keys = <<>>
    /\ nullable => Len(nw) = numRow
    /\ phase' = "dec"
    /\ b' = writerData
    /\ totalByte' = numRow * size
    /\ nb' = IF nullable THEN nw ELSE <<>>
    /\ i' = 0
    /\ ret' = "none"
    /\ out' = <<>>
    /\ outOp' = "none"
    /\ pre' = 0
    /\ seen' = <<>>
    /\ seenP' = <<>>
    /\ seqOnly' = TRUE
    /\ op' = "ReadRaw"
    /\ UNCHANGED <<val, cfgVars, arrVars, encVars>>

(***************************************************************************)
(* Values the callers append.                                              *)
(***************************************************************************)
Vals(k) ==
    IF k = "Uint64" THEN {U0, U1, U42, UMax}
    ELSE {TNeg, TEpoch, TOne, TMid, TMax32, TBig}

EncVals(k) == IF k = "Uint64" THEN {U1, UMax} ELSE {TNeg, TMid}

\* The values handed to AppendDict: among the times two that Append encodes
\* alike (both at or before the epoch) and one instant in two Locations.
DictVals(k) == IF k = "Uint64" THEN {U0, U42, UMax} ELSE {TNeg, TEpoch, TMid, TMidUTC}

\* The values whose address is handed to AppendDictP.
DictPVals(k) == IF k = "Uint64" THEN DictVals(k) ELSE {TMid, TMidUTC}

\* *T arguments over a set of values
Ptrs(S) == {<<>>} \cup {<<v>> : v \in S}

InitEnc ==
    /\ kind \in Kinds
    /\ nullable \in BOOLEAN
    /\ phase = "enc"
    /\ val = ZeroVal(kind)
    /\ op = "new"
    /\ Fresh
    /\ ArrFresh
    /\ BindBlock(<<>>, <<>>)

\* Every encode operation, in any order.
NextEnc ==
    \/ \E v \in EncVals(kind) : Len(hist) < MaxOps /\ AppendV(v)
    \/ Len(hist) < MaxOps /\ AppendEmpty
    \/ \E v \in Ptrs(EncVals(kind)) : Len(hist) < MaxOps /\ AppendP(v)
    \/ \E v \in EncVals(kind) : Len(hist) < MaxOps /\ AppendDict(v)
    \/ Len(hist) < MaxOps /\ AppendDictNil
    \/ \E v \in Ptrs(EncVals(kind)) : Len(hist) < MaxOps /\ AppendDictP(v)
    \/ Reset

SpecEnc == InitEnc /\ [][NextEnc]_vars

\* A low-cardinality column: the dictionary operations alone.
NextDict ==
    \/ \E v \in DictVals(kind) : Len(hist) < MaxDictOps /\ AppendDict(v)
    \/ Len(hist) < MaxDictOps /\ AppendDictNil
    \/ \E v \in Ptrs(DictPVals(kind)) : Len(hist) < MaxDictOps /\ AppendDictP(v)
    \/ Reset

SpecDict == InitEnc /\ [][NextDict]_vars

\* A block is built row by row, sent, and read back.
NextRT ==
    \/ \E v \in Vals(kind) : Len(hist) < MaxRT /\ ~nullable /\ AppendV(v)
    \/ Len(hist) < MaxRT /\ ~nullable /\ AppendEmpty
    \/ \E v \in Ptrs(Vals(kind)) : Len(hist) < MaxRT /\ nullable /\ AppendP(v)
    \/ ReadRawWritten
    \/ Next
    \/ ReadAll(<<>>)
    \/ ReadAllP(<<>>)

SpecRT == InitEnc /\ [][NextRT]_vars

(***************************************************************************)
(* Properties of the decode cursor.                                        *)
(***************************************************************************)
\* The unsigned number a little-endian span of 2, 4, 6 or 8 bytes denotes.
LEWord(s) ==
    [j \in 1..4 |->
        (IF 2 * j - 1 <= Len(s) THEN s[2 * j - 1] ELSE 0)
        + 256 * (IF 2 * j <= Len(s) THEN s[2 * j] ELSE 0)]

\* The number a decoded value carries: the integer itself, or the epoch
\* seconds of the timestamp.
NumberOf(k, v) == IF k = "Uint64" THEN v ELSE Unix(v)

\* C1: Next() at the end of the block (cursor = length of the read buffer)
\* returns false and leaves the cursor and the current value unchanged; in
\* every other state it advances the cursor by exactly the element width,
\* sets the current value to the little-endian decoding of the span just
\* consumed, and returns true.
C1_NextContract ==
    [][op' = "Next" =>
        IF i = Len(b)
        THEN ret' = "false" /\ i' = i /\ val' = val
        ELSE /\ ret' = "true"
             /\ i' = i + size
             /\ NumberOf(kind, val') = LEWord(Slice(b, i, i + size))
             /\ (kind = "DateTime" => val' = TimeUnix(Unix(val')))]_vars

C1_Witness ==
    /\ op = "Next" /\ ret = "false"
    /\ i = Len(b) /\ i >= 2 * size
    /\ seqOnly /\ Len(seen) * size = i
    /\ val = seen[Len(seen)]

\* C2: in every state reached by Next, Fill, FillP, ReadAll and ReadAllP on a
\* column bound to a decode block (Fill/FillP with a destination no longer than
\* the remaining rows) the cursor satisfies 0 <= cursor <= len(readBuffer) and
\* is a multiple of the element width, and no step decreases it.
C2_CursorInvariant ==
    /\ [](0 <= i /\ i <= Len(b) /\ i % size = 0)
    /\ [][i' >= i]_vars

C2_Witness ==
    /\ op = "FillP" /\ Len(out) >= 1
    /\ ret = "true"
    /\ i = Len(b) /\ i = 2 * size

\* C3: the sequence ReadAll appends to its output equals the sequence of
\* Value() results of Next() called from cursor 0 until it returns false: the
\* values seen so far are a prefix of it, and all of it once Next() has
\* returned false.
C3_ReadAllEqualsNext ==
    (outOp = "ReadAll" /\ seqOnly) =>
        LET appended == SubSeq(out, pre + 1, Len(out))
        IN  /\ Len(seen) <= Len(appended)
            /\ seen = SubSeq(appended, 1, Len(seen))
            /\ (ret = "false" => seen = appended)

C3_Witness ==
    /\ outOp = "ReadAll" /\ seqOnly /\ ret = "false"
    /\ pre = 1 /\ Len(out) = 3
    /\ seen = SubSeq(out, 2, 3)
    /\ seen[1] # seen[2]

(***************************************************************************)
(* Properties of the encoder and of a block written and read back.         *)
(***************************************************************************)
\* Row r (from 1) of a buffer of fixed-width elements.
RowOf(buf, r) == Slice(buf, (r - 1) * size, r * size)

IsBytes(s) == \A j \in 1..Len(s) : s[j] \in 0..255

\* An epoch-seconds value a 32-bit unsigned wire field can carry.
Fits32(w) == w[3] = 0 /\ w[4] = 0

\* C4: Uint64 round-trip: Append(v) writes exactly 8 bytes, least-significant
\* byte first, and decoding those 8 bytes with Next()+Value() returns v, for
\* every v including 0 and the maximum value.
C4_Uint64RoundTrip ==
    (kind = "Uint64" /\ ~nullable) =>
        /\ Len(writerData) = 8 * Len(hist)
        /\ \A r \in 1..Len(hist) :
             hist[r].op = "Append" =>
                /\ IsBytes(RowOf(writerData, r))
                /\ LEWord(RowOf(writerData, r)) = hist[r].arg[1]
        /\ phase = "dec" =>
             \A r \in 1..Len(seen) :
                hist[r].op = "Append" => seen[r] = hist[r].arg[1]

C4_Witness ==
    /\ kind = "Uint64" /\ phase = "dec" /\ op = "Next" /\ ret = "true"
    /\ hist = <<Call("Append", <<UMax>>), Call("Append", <<U0>>), Call("Append", <<U42>>)>>
    /\ seen = <<UMax, U0, U42>>
    /\ Value = U42

\* C5: DateTime round-trip: Append(t) of a timestamp whose epoch seconds are
\* <= 0 writes four zero bytes and decodes back to epoch 0; Append(t) of every
\* other timestamp representable in the 32-bit field writes its epoch seconds
\* as 4 little-endian bytes and decodes back to the same epoch seconds.
C5_DateTimeRoundTrip ==
    (kind = "DateTime" /\ ~nullable) =>
        /\ Len(writerData) = 4 * Len(hist)
        /\ \A r \in 1..Len(hist) :
             hist[r].op = "Append" =>
                LET t == hist[r].arg[1]
                    row == RowOf(writerData, r)
                IN  /\ IsBytes(row)
                    /\ LeqZero(Unix(t)) => row = <<0, 0, 0, 0>>
                    /\ (~LeqZero(Unix(t)) /\ Fits32(Unix(t))) => LEWord(row) = Unix(t)
                    /\ (phase = "dec" /\ r <= Len(seen)) =>
                          /\ LeqZero(Unix(t)) => Unix(seen[r]) = U0
                          /\ (~LeqZero(Unix(t)) /\ Fits32(Unix(t))) =>
                                Unix(seen[r]) = Unix(t)

C5_Witness ==
    /\ kind = "DateTime" /\ phase = "dec" /\ op = "Next" /\ ret = "true"
    /\ hist = <<Call("Append", <<TNeg>>), Call("Append", <<TMax32>>), Call("Append", <<TOne>>)>>
    /\ seen = <<TimeUnix(U0), TMax32, TimeUnix(U1)>>

\* What decoding returns for a row appended as the pointer a: nil for nil, and
\* for a value the value itself (Uint64) or the instant of its epoch seconds,
\* epoch 0 for an instant at or before the epoch (DateTime, 32-bit range).
ReadsBackAs(p, a) ==
    IF a = <<>> THEN p = <<>>
    ELSE /\ Len(p) = 1
         /\ kind = "Uint64" => p[1] = a[1]
         /\ (kind = "DateTime" /\ LeqZero(Unix(a[1]))) => p[1] = TimeUnix(U0)
         /\ (kind = "DateTime" /\ ~LeqZero(Unix(a[1])) /\ Fits32(Unix(a[1]))) =>
               p[1] = TimeUnix(Unix(a[1]))

\* C6: nullable round-trip: for any sequence of AppendP calls on a nullable
\* column the bitmap has 1 exactly at the rows appended as nil, whose value
\* bytes are zero, and decoding the value bytes with the bitmap (Next+ValueP,
\* ReadAllP) yields nil for every row appended as nil and the appended value
\* for every other row.
C6_NullableRoundTrip ==
    (nullable /\ \A r \in 1..Len(hist) : hist[r].op = "AppendP") =>
        /\ Len(nw) = Len(hist)
        /\ Len(writerData) = size * Len(hist)
        /\ \A r \in 1..Len(hist) :
             /\ nw[r] = (IF hist[r].arg = <<>> THEN 1 ELSE 0)
             /\ hist[r].arg = <<>> => RowOf(writerData, r) = EmptyBytes(size)
        /\ phase = "dec" =>
             /\ \A r \in 1..Len(seenP) : ReadsBackAs(seenP[r], hist[r].arg)
             /\ outOp = "ReadAllP" =>
                  /\ Len(out) = Len(hist)
                  /\ \A r \in 1..Len(out) : ReadsBackAs(out[r], hist[r].arg)

C6_Witness ==
    /\ kind = "Uint64" /\ nullable /\ phase = "dec"
    /\ hist = <<Call("AppendP", <<U1>>), Call("AppendP", <<>>), Call("AppendP", <<U42>>)>>
    /\ nb = <<0, 1, 0>>
    /\ Len(b) = 24 /\ Slice(b, 8, 16) = EmptyBytes(8)
    /\ outOp = "ReadAllP" /\ out = <<<<U1>>, <<>>, <<U42>>>>
    /\ seenP = out

\* The number of calls of the named operations in a history.
Count(h, names) == Len(SelectSeq(h, LAMBDA c : c.op \in names))

\* C7 as stated: after any sequence of the encode operations (Append,
\* AppendEmpty, AppendP, AppendDict, AppendDictNil, AppendDictP, Reset) the
\* length of the nullability bitmap equals the column's row count; read for the
\* columns that have a bitmap, the nullable ones.
C7_BitmapLenIsRowCount == nullable => Len(nw) = numRow

\* C7, amended: the bitmap holds one mark per AppendP call since the last
\* Reset and is never longer than the row count; it is as long as the row
\* count exactly when no Append or AppendEmpty was called and no value was
\* added to the dictionary since the last Reset.
C7_BitmapLenIsAppendPCount ==
    /\ Len(nw) = Count(hist, {"AppendP"})
    /\ Len(nw) <= numRow
    /\ (Len(nw) = numRow) <=>
          (Count(hist, {"Append", "AppendEmpty"}) = 0 /\ dict = EmptyDict)

C7_Witness ==
    /\ nullable
    /\ Count(hist, {"AppendP"}) = 2
    /\ Count(hist, {"Append"}) = 1
    /\ Len(nw) = 2 /\ numRow = 3
    /\ 1 \in {nw[j] : j \in 1..Len(nw)}

\* The distinct elements of s[1..n] in order of first occurrence.
RECURSIVE DedupUpTo(_, _)
DedupUpTo(s, n) ==
    IF n = 0 THEN <<>>
    ELSE LET d == DedupUpTo(s, n - 1)
         IN  IF \E j \in 1..(n - 1) : s[j] = s[n] THEN d ELSE Append(d, s[n])

Dedup(s) == DedupUpTo(s, Len(s))

Pos(d, v) == CHOOSE j \in 1..Len(d) : d[j] = v

\* The number the wire field carries for v.
WireNumber(k, v) ==
    IF k = "Uint64" THEN v ELSE IF LeqZero(Unix(v)) THEN U0 ELSE Unix(v)

\* C8: dictionary dedup: after any sequence of AppendDict calls since the last
\* Reset the value buffer holds one element per distinct appended value, in
\* order of first occurrence, and the key sequence has one entry per call,
\* equal to the first-occurrence position of that call's value (plus 1 on a
\* nullable column); so a value already seen does not grow the value buffer.
C8_DictionaryDedup ==
    (\A j \in 1..Len(hist) : hist[j].op = "AppendDict") =>
        LET vs == [j \in 1..Len(hist) |-> hist[j].arg[1]]
            d == Dedup(vs)
        IN  /\ Len(writerData) = size * Len(d)
            /\ numRow = Len(d)
            /\ \A r \in 1..Len(d) :
                 LEWord(RowOf(writerData, r)) = WireNumber(kind, d[r])
            /\ Len(keys) = Len(hist)
            /\ \A j \in 1..Len(hist) :
                 keys[j] = (Pos(d, vs[j]) - 1) + (IF nullable THEN 1 ELSE 0)

C8_Witness ==
    /\ kind = "Uint64" /\ ~nullable
    /\ hist = <<Call("AppendDict", <<U42>>), Call("AppendDict", <<UMax>>),
                Call("AppendDict", <<U42>>), Call("AppendDict", <<U0>>),
                Call("AppendDict", <<UMax>>)>>
    /\ keys = <<0, 1, 0, 2, 1>>
    /\ writerData = Uint64Bytes(U42) \o Uint64Bytes(UMax) \o Uint64Bytes(U0)

\* C9: nullable dictionary sentinel: AppendDictNil() appends key 0;
\* AppendDictP(nil) has the same effect (one key 0 appended; value buffer, row
\* count, bitmap and dictionary unchanged); and no key appended for a non-nil
\* value by AppendDictP, or by AppendDict on a nullable column, is 0.
C9_NilSentinel ==
    /\ [][(/\ Len(hist') = Len(hist) + 1
           /\ hist'[Len(hist')] \in {Call("AppendDictNil", <<>>), Call("AppendDictP", <<>>)})
          => (/\ keys' = Append(keys, 0)
              /\ UNCHANGED <<writerData, numRow, nw, dict>>)]_vars
    /\ [](/\ Len(keys) = Len(hist)
          /\ \A j \in 1..Len(hist) :
               (hist[j].arg # <<>> /\ (nullable \/ hist[j].op = "AppendDictP"))
                  => keys[j] # 0)

C9_Witness ==
    /\ kind = "Uint64" /\ nullable
    /\ hist = <<Call("AppendDictNil", <<>>), Call("AppendDictP", <<>>),
                Call("AppendDict", <<U42>>), Call("AppendDictP", <<UMax>>)>>
    /\ keys = <<0, 0, 1, 2>>
    /\ numRow = 2

\* The distinct non-nil values handed to the dictionary operations.
DictValues(h) == {h[j].arg[1] : j \in {n \in 1..Len(h) : h[n].arg # <<>>}}

\* C10 as stated: the dictionary's cardinality equals the number of distinct
\* non-nil values appended since the last Reset, and every entry of the key
\* sequence is either 0 (nullable mode only) or a +1-shifted key k+1 with
\* 0 <= k < cardinality.
C10_KeysShifted ==
    /\ DictLen(dict) = Cardinality(DictValues(hist))
    /\ \A j \in 1..Len(keys) :
         \/ keys[j] = 0 /\ nullable
         \/ (keys[j] - 1) \in 0..(DictLen(dict) - 1)

\* C10, amended: the dictionary maps the distinct non-nil values appended since
\* the last Reset one-to-one onto 0..cardinality-1, and the entry of each call
\* is 0 for a nil (AppendDictNil, AppendDictP(nil)), k+1 for a value appended
\* by AppendDictP or by AppendDict on a nullable column, and the unshifted k
\* for a value appended by AppendDict on a non-nullable column, k being the
\* value's dictionary key.
C10_KeysByMode ==
    /\ DOMAIN dict = DictValues(hist)
    /\ {dict[x] : x \in DOMAIN dict} = 0..(DictLen(dict) - 1)
    /\ Len(keys) = Len(hist)
    /\ \A j \in 1..Len(hist) :
         IF hist[j].arg = <<>> THEN keys[j] = 0
         ELSE LET k == dict[hist[j].arg[1]]
              IN  keys[j] = (IF nullable \/ hist[j].op = "AppendDictP" THEN k + 1 ELSE k)

C10_Witness ==
    /\ kind = "Uint64" /\ ~nullable
    /\ hist = <<Call("AppendDict", <<U42>>), Call("AppendDict", <<UMax>>),
                Call("AppendDictP", <<U42>>), Call("AppendDict", <<UMax>>)>>
    /\ keys = <<0, 1, 1, 1>>
    /\ DictLen(dict) = 2

(***************************************************************************)
(* Reset.                                                                  *)
(***************************************************************************)
IsDictValueCall(c) == c.op \in {"AppendDict", "AppendDictP"} /\ c.arg # <<>>

\* What a newly constructed column holds after the calls h: the value bytes,
\* the bitmap and the keys, call by call.
RECURSIVE FreshBytes(_, _)
FreshBytes(h, n) ==
    IF n = 0 THEN <<>>
    ELSE LET c == h[n]
             before == FreshBytes(h, n - 1)
         IN  IF c.op = "Append" \/ (c.op = "AppendP" /\ c.arg # <<>>)
             THEN before \o AppendBytes(kind, c.arg[1])
             ELSE IF c.op = "AppendEmpty" \/ c.op = "AppendP"
             THEN before \o EmptyBytes(size)
             ELSE IF IsDictValueCall(c)
                     /\ ~\E j \in 1..(n - 1) : IsDictValueCall(h[j]) /\ h[j].arg = c.arg
             THEN before \o AppendBytes(kind, c.arg[1])
             ELSE before

FreshBitmap(h) ==
    LET calls == SelectSeq(h, LAMBDA c : c.op = "AppendP")
    IN  [j \in 1..Len(calls) |-> IF calls[j].arg = <<>> THEN 1 ELSE 0]

FreshKeys(h) ==
    LET calls == SelectSeq(h, LAMBDA c : c.op \in {"AppendDict", "AppendDictP", "AppendDictNil"})
        values == SelectSeq(calls, IsDictValueCall)
        d == Dedup([j \in 1..Len(values) |-> values[j].arg[1]])
    IN  [j \in 1..Len(calls) |->
            IF calls[j].arg = <<>> THEN 0
            ELSE (Pos(d, calls[j].arg[1]) - 1)
                 + (IF nullable \/ calls[j].op = "AppendDictP" THEN 1 ELSE 0)]

\* C11: right after Reset the row count is 0 and the write buffer, the
\* bitmap, the dictionary and the key sequence are empty; and the value bytes,
\* bitmap and keys an encode sequence produces are those a newly constructed
\* column produces for it, whether or not a Reset came before the sequence.
C11_ResetIsFresh ==
    /\ op = "Reset" =>
          /\ numRow = 0 /\ writerData = <<>> /\ nw = <<>>
          /\ dict = EmptyDict /\ keys = <<>>
    /\ writerData = FreshBytes(hist, Len(hist))
    /\ nw = FreshBitmap(hist)
    /\ keys = FreshKeys(hist)

C11_Witness ==
    /\ wasReset /\ nullable
    /\ Len(hist) = 3
    /\ hist[1].op = "AppendDict" /\ hist[2].op = "AppendP" /\ hist[3].op = "AppendDictP"
    /\ hist[3].arg = hist[1].arg
    /\ keys = <<1, 1>> /\ Len(nw) = 1 /\ numRow = 2

(***************************************************************************)
(* Fill against Next.                                                      *)
(***************************************************************************)
\* The cursor after k calls of Next that start at cursor cur.
RECURSIVE CursorAfterNexts(_, _)
CursorAfterNexts(cur, k) ==
    IF k = 0 THEN cur
    ELSE LET c == CursorAfterNexts(cur, k - 1)
         IN  IF c >= totalByte THEN c ELSE c + size

\* What Value() returns after each of k calls of Next that start at cur.
NextValues(cur, k) ==
    [j \in 1..k |->
        LET c == CursorAfterNexts(cur, j)
        IN  DecodeSpan(kind, Slice(b, c - size, c))]

\* C16: Fill(out) with k = len(out) rows remaining gives what k calls of
\* Next() followed by Value() give: out[j] is the value of the j-th row after
\* the cursor and the cursor ends k * size further, so that a Next() that
\* follows decodes the row right after the filled ones; Fill with an empty
\* destination changes neither the cursor, the current value nor the block.
C16_FillEqualsNexts ==
    [][/\ op' = "Fill" =>
            LET k == Len(out') IN
            /\ out' = NextValues(i, k)
            /\ i' = CursorAfterNexts(i, k)
            /\ i' = i + k * size
            /\ \A j \in 1..k :
                  NumberOf(kind, out'[j])
                     = LEWord(Slice(b, i + (j - 1) * size, i + j * size))
            /\ (k = 0 => i' = i /\ val' = val /\ b' = b /\ ret' = ret)
       /\ (op = "Fill" /\ op' = "Next" /\ i < totalByte) =>
            /\ ret' = "true"
            /\ NumberOf(kind, val') = LEWord(Slice(b, i, i + size))
            /\ i' = i + size]_vars

C16_Witness ==
    /\ op = "Next" /\ ret = "true"
    /\ outOp = "Fill" /\ Len(out) = 1 /\ ~seqOnly
    /\ i = 2 * size /\ Len(seen) = 1
    /\ seen[1] = val /\ seen[1] # out[1]

(***************************************************************************)
(* The DateTime dictionary.                                                *)
(***************************************************************************)
\* C17: on a DateTime column in dictionary mode, after any AppendDict and
\* AppendDictP calls the value buffer holds only distinct values: no two of
\* its 4-byte entries are equal, and the number of entries is the number of
\* distinct encoded timestamps appended.
C17_DistinctEntries ==
    kind = "DateTime" =>
        /\ \A r1, r2 \in 1..numRow :
              RowOf(writerData, r1) = RowOf(writerData, r2) => r1 = r2
        /\ numRow = Cardinality({AppendBytes(kind, v) : v \in DictValues(hist)})

(***************************************************************************)
(* The write buffer and the row count.                                     *)
(***************************************************************************)
DictOps == {"AppendDict", "AppendDictP", "AppendDictNil"}

\* C18: in every state reachable by Append, AppendEmpty, AppendP, AppendDict,
\* AppendDictP, AppendDictNil and Reset the write buffer is numRow * size
\* bytes long; numRow counts the dictionary's entries and the rows appended
\* directly, so that in dictionary mode (dictionary calls only since the last
\* Reset) numRow is the dictionary's cardinality and not the number of keys.
C18_BufferLenIsRowCount ==
    /\ Len(writerData) = numRow * size
    /\ numRow = DictLen(dict) + Count(hist, {"Append", "AppendEmpty", "AppendP"})
    /\ (\A j \in 1..Len(hist) : hist[j].op \in DictOps) => numRow = DictLen(dict)
    /\ Len(keys) = Count(hist, DictOps)

C18_Witness ==
    /\ Len(hist) = 3
    /\ \A j \in 1..3 : hist[j].op \in DictOps
    /\ hist[1].op = "AppendDict" /\ hist[2].op = "AppendDictNil" /\ hist[3].op = "AppendDictP"
    /\ Len(keys) = 3 /\ numRow = 1 /\ DictLen(dict) = 1
    /\ Len(writerData) = size

(***************************************************************************)
(* The three nullable decode paths.                                        *)
(***************************************************************************)
\* C19: the three nullable decode paths agree on which rows are null, for
\* every block and every content of the bitmap bytes: row r is nil in the
\* result of ReadAllP exactly when Next() followed by ValueP() gives nil at
\* row r and exactly when FillP from cursor 0 gives nil at position r; the
\* values that are not nil are equal.
C19_NullPathsAgree ==
    /\ (outOp = "ReadAllP" /\ seqOnly) =>
          \A r \in 1..Len(seenP) : seenP[r] = out[pre + r]
    /\ (op = "FillP" /\ i = Len(out) * size) =>
          \A r \in 1..Len(out) : out[r] = ReadAllPRows[r]

(***************************************************************************)
(* ArrayNullable (column/array_nullable.go): an offset column over an      *)
(* inner nullable column.  An element is a pointer: <<>> is nil, <<x>> a   *)
(* value.  A row is a sequence of elements.                                *)
(***************************************************************************)
ArrRowSet == {<<>>, <<<<10>>, <<20>>>>, <<<<30>>>>, <<<<30>>, <<>>>>}

\* The rows of the blocks a reader delivers, for the reads and for Scan.
DecRowSet == {<<>>, <<<<10>>, <<20>>>>, <<<<30>>>>}
ScanRowSet == {<<>>, <<<<30>>>>, <<<<30>>, <<>>>>}

\* The scalar column is not in use while the array column is exercised.
ScalarIdle ==
    /\ kind = "Uint64"
    /\ nullable = TRUE
    /\ phase = "arr"
    /\ val = ZeroVal(kind)
    /\ op = "new"
    /\ Fresh
    /\ BindBlock(<<>>, <<>>)

LastOffset(off) == IF off = <<>> THEN 0 ELSE off[Len(off)]

\* ArrayBase.AppendLen(n): the previous cumulative length plus n goes onto the
\* offset column.
AppendLen(off, n) == Append(off, LastOffset(off) + n)

\* NullableColumn.AppendMultiP(v...): each element goes to the inner column.
InnerAppendMultiP(inner, v) == inner \o v

\* NullableColumn.AppendP(v): one element goes to the inner column.
InnerAppendP(inner, v) == Append(inner, v)

\* The offset column and the inner column after the first k rows of v are
\* appended, one AppendLen and one AppendMultiP per row.
RECURSIVE OffsetsAfterRows(_, _, _)
OffsetsAfterRows(off, v, k) ==
    IF k = 0 THEN off
    ELSE AppendLen(OffsetsAfterRows(off, v, k - 1), Len(v[k]))

RECURSIVE InnerAfterRows(_, _, _)
InnerAfterRows(inner, v, k) ==
    IF k = 0 THEN inner
    ELSE InnerAppendMultiP(InnerAfterRows(inner, v, k - 1), v[k])

ArrAppendMultiPLenOfOuter(v) ==
    /\ phase = "arr"
    /\ offW' = [j \in 1..(Len(offW) + Len(v)) |->
                  IF j <= Len(offW) THEN offW[j]
                  ELSE LastOffset(offW) + (j - Len(offW)) * Len(v)]
    /\ innerW' = InnerAfterRows(innerW, v, Len(v))
    /\ aHist' = aHist \o [j \in 1..Len(v) |-> Call("AppendMultiP", v[j])]
    /\ aOp' = "AppendMultiP"
    /\ UNCHANGED <<arrDecVars, arrScanVars, scalarVars>>

\* ArrayNullable.AppendP(v)
ArrAppendP(v) ==
    /\ phase = "arr"
    /\ offW' = AppendLen(offW, Len(v))
    /\ innerW' = InnerAppendMultiP(innerW, v)
    /\ aHist' = Append(aHist, Call("AppendP", v))
    /\ aOp' = "AppendP"
    /\ UNCHANGED <<arrDecVars, arrScanVars, scalarVars>>

\* ArrayNullable.AppendMultiP(v)
ArrAppendMultiP(v) ==
    /\ phase = "arr"
    /\ offW' = OffsetsAfterRows(offW, v, Len(v))
    /\ innerW' = InnerAfterRows(innerW, v, Len(v))
    /\ aHist' = aHist \o [j \in 1..Len(v) |-> Call("AppendMultiP", v[j])]
    /\ aOp' = "AppendMultiP"
    /\ UNCHANGED <<arrDecVars, arrScanVars, scalarVars>>

\* AppendLen(n), called by the user who appends the items one by one.
ArrAppendLen(n) ==
    /\ phase = "arr"
    /\ offW' = AppendLen(offW, n)
    /\ aHist' = Append(aHist, Call("AppendLen", n))
    /\ aOp' = "AppendLen"
    /\ UNCHANGED <<innerW, arrDecVars, arrScanVars, scalarVars>>

\* ArrayNullable.AppendItemP(v): one element for the inner column, no offset.
ArrAppendItemP(v) ==
    /\ phase = "arr"
    /\ innerW' = InnerAppendP(innerW, v)
    /\ aHist' = Append(aHist, Call("AppendItemP", v))
    /\ aOp' = "AppendItemP"
    /\ UNCHANGED <<offW, arrDecVars, arrScanVars, scalarVars>>

\* The lengths handed to AppendLen and the items handed to AppendItemP.
ArrLens == 0..2
ArrItems == {<<>>, <<10>>, <<20>>}

\* The lists of at most n rows taken from S.
RowLists(S, n) == UNION {[1..m -> S] : m \in 0..n}

InitArr ==
    /\ ScalarIdle
    /\ ArrFresh

NextArrEnc ==
    \/ \E v \in ArrRowSet : Len(aHist) < MaxArrRows /\ ArrAppendP(v)
    \/ \E v \in RowLists(ArrRowSet, MaxArrRows) :
          Len(aHist) + Len(v) <= MaxArrRows /\ ArrAppendMultiP(v)
    \/ \E n \in ArrLens : Len(aHist) < MaxArrRows /\ ArrAppendLen(n)
    \/ \E v \in ArrItems : Len(aHist) < MaxArrRows /\ ArrAppendItemP(v)

SpecArrEnc == InitArr /\ [][NextArrEnc]_vars

\* Only AppendP and AppendMultiP were called since the last Reset.
RowCallsOnly(h) == \A j \in 1..Len(h) : h[j].op \in {"AppendP", "AppendMultiP"}

\* C12: for any sequence of AppendP / AppendMultiP calls with row lengths
\* n0, n1, ... the offset column holds one entry per row with
\* offset[i] = offset[i-1] + n_i (offset[-1] = 0), so it never decreases, and
\* its last entry is the number of elements appended to the inner column.
C12_OffsetsCumulative ==
    RowCallsOnly(aHist) =>
        LET rows == [j \in 1..Len(aHist) |-> aHist[j].arg] IN
        /\ Len(offW) = Len(rows)
        /\ \A j \in 1..Len(offW) :
              /\ offW[j] = (IF j = 1 THEN 0 ELSE offW[j - 1]) + Len(rows[j])
              /\ j > 1 => offW[j] >= offW[j - 1]
        /\ LastOffset(offW) = Len(innerW)
        /\ innerW = Flatten(rows)

C12_Witness ==
    /\ Len(aHist) = 3
    /\ RowCallsOnly(aHist)
    /\ aHist[1].op = "AppendP"
    /\ aOp = "AppendMultiP"
    /\ offW = <<2, 2, 3>>
    /\ innerW = <<<<10>>, <<20>>, <<30>>>>

(***************************************************************************)
(* ArrayNullable: reads of a decode block.                                 *)
(***************************************************************************)
\* The values of err in ArrayNullable.ReadRaw: nil, or the error that
\* Array.ReadRaw returned.
NoErr == <<>>
ReadErr == <<"read error">>
ReadRawErrs == {NoErr, ReadErr}

\* The offsets of a block that holds the rows v: cumulative row lengths.
OffsetsOf(v) == OffsetsAfterRows(<<>>, v, Len(v))

\* c.offsetColumn.Row(r), rows counted from zero.
OffsetRow(r) == rOff[r + 1]

\* c.dataColumn.DataP(): the inner column's elements of the bound block.
InnerDataP == rData

\* getColumnData: the cache is filled when it is empty, and returned.
GetColumnData == IF Len(columnData) = 0 THEN InnerDataP ELSE columnData

UseColumnData ==
    /\ columnData' = GetColumnData
    /\ computed' = IF Len(columnData) = 0 THEN computed + 1 ELSE computed

\* The loop of DataP and ReadP: the slices of the first k rows, each from the
\* offset of the row before (0 for the first) to the row's own offset.
RECURSIVE RowSlices(_, _)
RowSlices(data, k) ==
    IF k = 0 THEN <<>>
    ELSE LET lastOffset == IF k = 1 THEN 0 ELSE OffsetRow(k - 2)
         IN  Append(RowSlices(data, k - 1), Slice(data, lastOffset, OffsetRow(k - 1)))

\* A slice expression that reaches beyond the view panics (unless the view's
\* capacity, which is the inner column's business, reaches that far).
RowPValue(row) ==
    LET lastOffset == IF row # 0 THEN OffsetRow(row - 1) ELSE 0
    IN  IF OffsetRow(row) > Len(GetColumnData) THEN "panic"
        ELSE Slice(GetColumnData, lastOffset, OffsetRow(row))

\* What the loop of DataP and ReadP leaves: the slices of all rows, or a panic
\* at the first row that reaches beyond the view.
AllRowSlices ==
    IF LastOffset(rOff) > Len(GetColumnData) THEN "panic"
    ELSE RowSlices(GetColumnData, rNum)

RowPFromStart(row) ==
    /\ phase = "arr"
    /\ aOut' = Slice(GetColumnData, 0, OffsetRow(row))
    /\ aArg' = row
    /\ UseColumnData
    /\ aOp' = "RowP"
    /\ UNCHANGED <<rNum, rOff, rData, arrEncVars, arrScanVars, scalarVars>>

\* ArrayNullable.RowP(row)
RowP(row) ==
    /\ phase = "arr"
    /\ aOut' = RowPValue(row)
    /\ aArg' = row
    /\ UseColumnData
    /\ aOp' = "RowP"
    /\ UNCHANGED <<rNum, rOff, rData, arrEncVars, arrScanVars, scalarVars>>

\* ArrayNullable.DataP()
DataP ==
    /\ phase = "arr"
    /\ aOut' = AllRowSlices
    /\ aArg' = <<>>
    /\ UseColumnData
    /\ aOp' = "DataP"
    /\ UNCHANGED <<rNum, rOff, rData, arrEncVars, arrScanVars, scalarVars>>

\* ArrayNullable.ReadP(value)
ReadP(value) ==
    /\ phase = "arr"
    /\ aOut' = IF AllRowSlices = "panic" THEN "panic" ELSE value \o AllRowSlices
    /\ aArg' = value
    /\ UseColumnData
    /\ aOp' = "ReadP"
    /\ UNCHANGED <<rNum, rOff, rData, arrEncVars, arrScanVars, scalarVars>>

\* Array.ReadRaw(num, r) returning err: without error the offsets and the inner
\* column are bound to the block that holds the rows v; with an error no block
\* was delivered and the column keeps what it had bound.
ArrayReadRaw(v, err) ==
    IF err = NoErr
    THEN /\ rNum' = Len(v)
         /\ rOff' = OffsetsOf(v)
         /\ rData' = Flatten(v)
    ELSE UNCHANGED <<rNum, rOff, rData>>

\* ReadRaw that leaves a view it finds in place.
ArrReadRawKeepsCache(v, err) ==
    /\ phase = "arr"
    /\ ArrayReadRaw(v, err)
    /\ IF err # NoErr
       THEN /\ UNCHANGED <<columnData, computed>>
            /\ aOut' = err
       ELSE /\ columnData' = IF Len(columnData) = 0 THEN rData' ELSE columnData
            /\ computed' = 1
            /\ aOut' = NoErr
    /\ aOp' = "ReadRaw"
    /\ aArg' = <<>>
    /\ UNCHANGED <<arrEncVars, arrScanVars, scalarVars>>

\* ArrayNullable.ReadRaw(num, r), Array.ReadRaw returning err: an error is
\* returned before the view is assigned.
ArrReadRaw(v, err) ==
    /\ phase = "arr"
    /\ ArrayReadRaw(v, err)
    /\ IF err # NoErr
       THEN /\ UNCHANGED <<columnData, computed>>
            /\ aOut' = err
       ELSE /\ columnData' = rData'
            /\ computed' = 1
            /\ aOut' = NoErr
    /\ aOp' = "ReadRaw"
    /\ aArg' = <<>>
    /\ UNCHANGED <<arrEncVars, arrScanVars, scalarVars>>

\* ArrayBase.Reset: the offsets and elements being built are dropped.
ArrayBaseReset ==
    /\ offW' = <<>>
    /\ innerW' = <<>>
    /\ aHist' = <<>>

\* Reset of an ArrayNullable: ArrayBase.Reset, which runs the resetHook.
ArrReset ==
    /\ phase = "arr"
    /\ ArrayBaseReset
    /\ columnData' = <<>>
    /\ computed' = 0
    /\ aOp' = "Reset"
    /\ UNCHANGED <<rNum, rOff, rData, aOut, aArg, arrScanVars, scalarVars>>

\* The slices a caller passes to ReadP to be appended to.
ReadPInputs == {<<>>, << <<<<30>>>> >>}

\* Reads of blocks delivered without error.
NextArrDec ==
    \/ \E v \in RowLists(DecRowSet, MaxArrRows) : ArrReadRaw(v, NoErr)
    \/ \E row \in 0..(rNum - 1) : computed < MaxComputes /\ RowP(row)
    \/ computed < MaxComputes /\ DataP
    \/ \E value \in ReadPInputs : computed < MaxComputes /\ ReadP(value)
    \/ ArrReset

SpecArrDec == InitArr /\ [][NextArrDec]_vars

\* Reads of blocks whose delivery may fail.
NextArrCache ==
    \/ \E v \in RowLists(DecRowSet, MaxCacheRows), err \in ReadRawErrs : ArrReadRaw(v, err)
    \/ \E row \in 0..(rNum - 1) : computed < MaxComputes /\ RowP(row)
    \/ computed < MaxComputes /\ DataP
    \/ \E value \in ReadPInputs : computed < MaxComputes /\ ReadP(value)
    \/ ArrReset

SpecArrCache == InitArr /\ [][NextArrCache]_vars

\* The offset at which row r (counted from zero) starts.
RowStart(r) == IF r = 0 THEN 0 ELSE rOff[r]

\* s holds the elements of row r of the bound block, no more and no fewer.
IsRowOfBlock(s, r) ==
    /\ Len(s) = rOff[r + 1] - RowStart(r)
    /\ \A k \in 1..Len(s) : s[k] = rData[RowStart(r) + k]

\* C13: RowP(i) is data[offset[i-1] : offset[i]] (offset[-1] = 0), of length
\* offset[i] - offset[i-1]; DataP()[i] and the i-th slice ReadP appends to its
\* input are that same row.  Offsets [2,2,3] over the elements 10, 20, 30 give
\* the rows [10,20], [] and [30].
C13_RowIsOffsetSlice ==
    /\ aOp = "RowP" => IsRowOfBlock(aOut, aArg)
    /\ aOp = "DataP" =>
          /\ Len(aOut) = rNum
          /\ \A r \in 0..(rNum - 1) : IsRowOfBlock(aOut[r + 1], r)
    /\ aOp = "ReadP" =>
          /\ Len(aOut) = Len(aArg) + rNum
          /\ \A k \in 1..Len(aArg) : aOut[k] = aArg[k]
          /\ \A r \in 0..(rNum - 1) : IsRowOfBlock(aOut[Len(aArg) + r + 1], r)

C13_Witness ==
    /\ aOp = "DataP"
    /\ rOff = <<2, 2, 3>>
    /\ rData = <<<<10>>, <<20>>, <<30>>>>
    /\ aOut = << <<<<10>>, <<20>>>>, <<>>, <<<<30>>>> >>

IsRead(o) == o \in {"RowP", "DataP", "ReadP"}

\* The cached view is empty or the inner column's data of the bound block.
Coherent == columnData = <<>> \/ columnData = rData

SliceTypes == {"*[]*T", "*[]int64", "*[]Strict", "*[]string"}

Dests ==
    {[type |-> t, val |-> v] : t \in SliceTypes, v \in {<<>>, <<"old">>}}
    \cup {[type |-> "*any", val |-> <<"old">>], [type |-> "*int", val |-> <<"old">>]}


\* fmt.Errorf(format, args...): the text, the arguments it formats, and the
\* error it wraps (%w).
Errorf(format, args, wrapped) ==
    <<[format |-> format, args |-> args, wrapped |-> wrapped]>>

\* NullableColumn.Scan(i, &element): whether the inner column refuses to scan
\* element item (counted from zero) into an element of the destination's type.
InnerScanFails(item, t) ==
    \/ t = "*[]string"
    \/ t = "*[]Strict" /\ rData[item + 1] = <<>>

\* What NullableColumn.Scan leaves in the element it scanned into: the
\* converted value; a nil element leaves the zero value of the new slice.
InnerScanInto(item) ==
    IF rData[item + 1] = <<>> THEN "zero" ELSE <<"conv", rData[item + 1][1]>>

\* The index at which the loop of ScanValue stops with an error, if any.
FailingItems(row, t) ==
    {k \in RowStart(row)..(OffsetRow(row) - 1) : InnerScanFails(k, t)}

FirstFailing(row, t) ==
    CHOOSE k \in FailingItems(row, t) : \A m \in FailingItems(row, t) : k <= m

ScanValueSetsPartial(row, d) ==
    /\ phase = "arr"
    /\ destBefore' = d
    /\ aArg' = row
    /\ IF d.type \notin SliceTypes
       THEN /\ scanErr' = Errorf("dest must be a pointer to slice", <<>>, <<>>)
            /\ dest' = d
            /\ UNCHANGED <<columnData, computed>>
       ELSE IF d.type = "*[]*T"
       THEN /\ dest' = [d EXCEPT !.val = RowPValue(row)]
            /\ scanErr' = NoErr
            /\ UseColumnData
       ELSE /\ UNCHANGED <<columnData, computed>>
            /\ IF FailingItems(row, d.type) # {}
               THEN /\ scanErr' = Errorf("cannot scan array item %d: %w",
                                         <<FirstFailing(row, d.type)>>, <<"inner">>)
                    /\ dest' = [d EXCEPT !.val =
                                  [k \in 1..(FirstFailing(row, d.type) - RowStart(row)) |->
                                      InnerScanInto(RowStart(row) + k - 1)]]
               ELSE /\ scanErr' = NoErr
                    /\ dest' = [d EXCEPT !.val =
                                  [k \in 1..(OffsetRow(row) - RowStart(row)) |->
                                      InnerScanInto(RowStart(row) + k - 1)]]
    /\ UNCHANGED <<rNum, rOff, rData, aOut, arrEncVars, scalarVars>>

\* ArrayNullable.ScanValue(row, dest), but for the name of the call.
ScanValueBody(row, d) ==
    /\ phase = "arr"
    /\ destBefore' = d
    /\ aArg' = row
    /\ IF d.type \notin SliceTypes
       THEN /\ scanErr' = Errorf("dest must be a pointer to slice", <<>>, <<>>)
            /\ dest' = d
            /\ UNCHANGED <<columnData, computed>>
       ELSE IF d.type = "*[]*T"
       THEN /\ dest' = [d EXCEPT !.val = RowPValue(row)]
            /\ scanErr' = NoErr
            /\ UseColumnData
       ELSE /\ UNCHANGED <<columnData, computed>>
            /\ IF FailingItems(row, d.type) # {}
               THEN /\ scanErr' = Errorf("cannot scan array item %d: %w",
                                         <<FirstFailing(row, d.type)>>, <<"inner">>)
                    /\ dest' = d
               ELSE /\ scanErr' = NoErr
                    /\ dest' = [d EXCEPT !.val =
                                  [k \in 1..(OffsetRow(row) - RowStart(row)) |->
                                      InnerScanInto(RowStart(row) + k - 1)]]
    /\ UNCHANGED <<rNum, rOff, rData, aOut, arrEncVars, scalarVars>>

\* ArrayNullable.ScanValue(row, reflect.ValueOf(dest))
ScanValue(row, d) ==
    /\ ScanValueBody(row, d)
    /\ aOp' = "ScanValue"

\* ArrayNullable.Scan(row, dest)
Scan(row, d) ==
    /\ aOp' = "Scan"
    /\ IF d.type \in {"*[]*T", "*any"}
       THEN /\ phase = "arr"
            /\ destBefore' = d
            /\ aArg' = row
            /\ dest' = [d EXCEPT !.val = RowPValue(row)]
            /\ scanErr' = NoErr
            /\ UseColumnData
            /\ UNCHANGED <<rNum, rOff, rData, aOut, arrEncVars, scalarVars>>
       ELSE ScanValueBody(row, d)

NextArrScan ==
    \/ \E v \in RowLists(ScanRowSet, MaxScanRows) : ArrReadRaw(v, NoErr)
    \/ \E row \in 0..(rNum - 1), d \in Dests : computed < MaxComputes /\ Scan(row, d)
    \/ \E row \in 0..(rNum - 1), d \in Dests : computed < MaxComputes /\ ScanValue(row, d)

SpecArrScan == InitArr /\ [][NextArrScan]_vars

IsScan(o) == o \in {"Scan", "ScanValue"}

\* The destination cannot take row: it is not a slice, or the inner column
\* cannot scan into its elements.
Incompatible(t, row) ==
    \/ t = "*int"
    \/ t = "*[]string"
    \/ t = "*[]Strict" /\ FailingItems(row, t) # {}

\* C15: Scan / ScanValue into an incompatible destination (not a slice, or a
\* slice whose elements the inner column cannot scan into) returns an error,
\* never success, and the error identifies the offending row index.
C15_MismatchNamesRow ==
    IsScan(aOp) =>
        /\ Incompatible(destBefore.type, aArg) => scanErr # NoErr
        /\ scanErr # NoErr => scanErr[1].args = <<aArg>>

\* C20: whenever ScanValue returns an error the caller's destination is left
\* as it was: it is assigned only after every element was scanned.
C20_ErrorLeavesDest ==
    (IsScan(aOp) /\ scanErr # NoErr) => dest = destBefore

C20_Witness ==
    /\ aOp = "ScanValue" /\ aArg = 1
    /\ rOff = <<1, 3>>
    /\ rData = <<<<30>>, <<30>>, <<>>>>
    /\ scanErr # NoErr /\ scanErr[1].args = <<2>>
    /\ destBefore = [type |-> "*[]Strict", val |-> <<"old">>]
    /\ dest = destBefore

====
